---------------------------- MODULE Spec2Model ----------------------------
(***************************************************************************)
(* A model of the segmentation state machine of analyze_gpx.py             *)
(* (segment_runs, create_segment), of the ray-casting geofence of          *)
(* verify_slopes.py (contains_coordinate, find_slope), of the majority     *)
(* vote of verify_slopes.py (main) and of its run detector                 *)
(* (identify_runs).                                                        *)
(*                                                                         *)
(* Units.  Speeds are integers in dm/s (0.1 m/s), so that the code's       *)
(* speed_kmh = speed * 3.6 is speed * 36 in units of 0.01 km/h.            *)
(* Elevations are integers in metres.  Coordinates of the geofence are     *)
(* integers on a small grid on which the code's floating point arithmetic  *)
(* is exact.                                                               *)
(***************************************************************************)
EXTENDS Integers, Sequences, FiniteSets, TLC

VARIABLES
    points,          \* segment_runs: the part of `points` the for-loop has reached
    segments,        \* segment_runs: segments
    current_points,  \* segment_runs: current_points, as 0-based indices into points
    current_type,    \* segment_runs: current_type
    pc,              \* segment_runs: "loop" inside the for-loop, "done" after return
    feed,            \* the caller's track: what it hands over next
    polygon,         \* contains_coordinate: the ring as the registry holds it
    query,           \* contains_coordinate, find_slope: <<lat, lon>>
    verdicts,        \* what contains_coordinate returned for the ring started at
                     \* its 1st, 2nd, ... vertex
    registry,        \* SLOPE_DEFINITIONS: <<[name, polygon], ...>> in dict order
    found,           \* <<>> before find_slope returns, <<its result>> after
    run,             \* main: the points of the current run the inner loop has reached
    run_index,       \* main: how many runs the outer loop has closed
    slope_votes,     \* main: slope_votes, <<[slope, votes], ...>> in dict order
    detected_slopes, \* main: detected_slopes
    slope_counts,    \* main: slope_counts, a function from its keys
    line,            \* main: <<>>, or <<what line 175 printed for the run just closed>>
    vpc,             \* main: "vote" in the loops, "printed" after line 175, "done"
    vfeed,           \* the run identify_runs hands over: its last point, its switches
    samples,         \* identify_runs: the part of `points` the for-loop has reached
    runs,            \* identify_runs: runs, each run as 0-based indices into the input
    current_run,     \* identify_runs: current_run, as 0-based indices into the input
    in_run,          \* identify_runs: in_run
    rpc,             \* identify_runs: "loop" inside the for-loop, "done" after return
    rfeed            \* the caller's track of speeds: how often it has turned

segVars == <<points, segments, current_points, current_type, pc, feed>>

geoVars == <<polygon, query, verdicts, registry, found>>

voteVars == <<run, run_index, slope_votes, detected_slopes, slope_counts, line,
              vpc, vfeed>>

runVars == <<samples, runs, current_run, in_run, rpc, rfeed>>

vars == <<points, segments, current_points, current_type, pc, feed,
          polygon, query, verdicts, registry, found,
          run, run_index, slope_votes, detected_slopes, slope_counts, line,
          vpc, vfeed,
          samples, runs, current_run, in_run, rpc, rfeed>>

---------------------------------------------------------------------------
(* Bounds of the model *)

\* the longest track a caller hands to segment_runs
MaxPoints == 22

\* how many times the caller's track changes its kind of motion
MaxSwitches == 2

---------------------------------------------------------------------------
(* analyze_gpx.py: segment_runs *)

None == "None"

SPEED_THRESHOLD_RUN == 500

SPEED_THRESHOLD_LIFT == 200

MIN_SEGMENT_POINTS == 10

\* points[i] of the code (the code counts from 0)
At(pts, i) == pts[i + 1]

\* speed_kmh = point.speed * 3.6, in 0.01 km/h
SpeedKmh(point) == point.speed * 36

\* a label that looks the elevation up as soon as points[i-5] exists
NewTypeEarlyLookup(pts, i) ==
    LET point == At(pts, i)
        speed_kmh == SpeedKmh(point)
        recent_ele_change == point.ele - At(pts, i - 5).ele
    IN  IF speed_kmh > SPEED_THRESHOLD_RUN
        THEN IF i >= 5
             THEN IF recent_ele_change < -3 THEN "run"
                  ELSE IF recent_ele_change > 3 THEN "lift"
                  ELSE "run"
             ELSE "run"
        ELSE IF speed_kmh > SPEED_THRESHOLD_LIFT
        THEN IF i >= 5
             THEN IF recent_ele_change > 2 THEN "lift" ELSE "rest"
             ELSE "lift"
        ELSE "rest"

\* the label of point i: the if/elif/else of the loop body
NewType(pts, i) ==
    LET point == At(pts, i)
        speed_kmh == SpeedKmh(point)
        recent_ele_change == point.ele - At(pts, i - 5).ele
    IN  IF speed_kmh > SPEED_THRESHOLD_RUN
        THEN IF i > 5
             THEN IF recent_ele_change < -3 THEN "run"
                  ELSE IF recent_ele_change > 3 THEN "lift"
                  ELSE "run"
             ELSE "run"
        ELSE IF speed_kmh > SPEED_THRESHOLD_LIFT
        THEN IF i > 5
             THEN IF recent_ele_change > 2 THEN "lift" ELSE "rest"
             ELSE "lift"
        ELSE "rest"

\* max(speeds_kmh) if speeds_kmh else 0
MaxOf(S) ==
    IF S = {} THEN 0
    ELSE LET x == CHOOSE y \in S : \A z \in S : z <= y IN x

\* create_segment: the fields that do not need the great-circle distance.
\* The result is <<>> for Python's None and <<segment>> for a Segment.
create_segment(pts, idxs, seg_type) ==
    IF idxs = <<>> THEN <<>>
    ELSE << [ segment_type    |-> seg_type,
           points          |-> idxs,
           start_ele       |-> At(pts, idxs[1]).ele,
           end_ele         |-> At(pts, idxs[Len(idxs)]).ele,
           vertical_change |-> At(pts, idxs[Len(idxs)]).ele - At(pts, idxs[1]).ele,
           max_speed       |-> MaxOf({ SpeedKmh(At(pts, idxs[k])) :
                                         k \in { n \in 1..Len(idxs) :
                                                   At(pts, idxs[n]).speed > 0 } }) ] >>

\* seg = create_segment(...); if seg: segments.append(seg)
AppendSegment(segs, seg) == IF seg = <<>> THEN segs ELSE Append(segs, seg[1])

\* a commit that asks for more than MIN_SEGMENT_POINTS points
CommitsStrict(new_type, cur_type, buffer) ==
    new_type # cur_type /\ Len(buffer) > MIN_SEGMENT_POINTS

\* a commit that forgets the minimum length
CommitsAnyLength(new_type, cur_type, buffer) ==
    new_type # cur_type /\ Len(buffer) >= 1

\* a commit that forgets to compare the label with the state
CommitsEvery(new_type, cur_type, buffer) == Len(buffer) >= MIN_SEGMENT_POINTS

\* new_type != current_type and len(current_points) >= MIN_SEGMENT_POINTS
Commits(new_type, cur_type, buffer) ==
    new_type # cur_type /\ Len(buffer) >= MIN_SEGMENT_POINTS

\* a buffer that is not restarted on a commit
BufferAfterKeep(commit, buffer, i) == Append(buffer, i)

\* a buffer that restarts empty on a commit, the triggering point left out
BufferAfterDrop(commit, buffer, i) == IF commit THEN <<>> ELSE Append(buffer, i)

\* current_points = [point] on a commit, current_points.append(point) otherwise
BufferAfter(commit, buffer, i) == IF commit THEN <<i>> ELSE Append(buffer, i)

\* a state machine that starts in the state rest
SeededRest(cur_type, new_type) == IF cur_type = None THEN "rest" ELSE cur_type

\* if current_type is None: current_type = new_type
Seeded(cur_type, new_type) == IF cur_type = None THEN new_type ELSE cur_type

\* one iteration of the for-loop, on the next point of the track
Iterate(point) ==
    /\ pc = "loop"
    /\ LET i == Len(points)
           pts == Append(points, point)
           new_type == NewType(pts, i)
           cur_type == Seeded(current_type, new_type)
           commit == Commits(new_type, cur_type, current_points)
       IN  /\ points' = pts
           /\ segments' = IF commit
                          THEN AppendSegment(segments,
                                   create_segment(pts, current_points, cur_type))
                          ELSE segments
           /\ current_points' = BufferAfter(commit, current_points, i)
           /\ current_type' = IF commit THEN new_type ELSE cur_type
    /\ pc' = pc
    /\ UNCHANGED <<geoVars, voteVars, runVars>>

\* a trailing buffer that is always finalized
TrailingKeptAlways(buffer) == TRUE

\* len(current_points) >= MIN_SEGMENT_POINTS, after the loop
TrailingKept(buffer) == Len(buffer) >= MIN_SEGMENT_POINTS

\* the end of the for-loop: the last segment, and return segments
Finish ==
    /\ pc = "loop"
    /\ segments' = IF TrailingKept(current_points)
                   THEN AppendSegment(segments,
                            create_segment(points, current_points, current_type))
                   ELSE segments
    /\ pc' = "done"
    /\ UNCHANGED <<points, current_points, current_type, feed>>
    /\ UNCHANGED <<geoVars, voteVars, runVars>>

---------------------------------------------------------------------------
(* The tracks handed to segment_runs *)

BaseEle == 1000

\* kinds of motion: standing, skiing down (1 m per point), riding up fast
\* (1 m per point), moving slowly on the flat
Kinds ==
    { [speed |-> 0,  slope |-> 0],
      [speed |-> 25, slope |-> -1],
      [speed |-> 25, slope |-> 1],
      [speed |-> 10, slope |-> 0] }

LastEle(pts) == IF pts = <<>> THEN BaseEle ELSE pts[Len(pts)].ele

\* a track of at most MaxPoints points that changes its kind of motion at
\* most MaxSwitches times
Track ==
    /\ Len(points) < MaxPoints
    /\ \E k \in Kinds :
          /\ \/ points = <<>>
             \/ k = feed.kind
             \/ feed.switches < MaxSwitches
          /\ feed' = [ kind |-> k,
                       switches |-> IF points = <<>> \/ k = feed.kind
                                    THEN feed.switches ELSE feed.switches + 1 ]
          /\ Iterate([speed |-> k.speed, ele |-> LastEle(points) + k.slope])

\* The 30-point scenario: indices 0-9 ramp from 0 to 8 km/h (22 dm/s is
\* 7.92 km/h), indices 10-24 move at 9 km/h (25 dm/s) while the elevation
\* drops 5 m in total, indices 25-29 stand still.
Ramps ==
    { <<0, 2, 4, 7, 9, 12, 14, 17, 19, 22>>,
      <<0, 3, 5, 8, 10, 13, 15, 18, 20, 22>>,
      <<0, 1, 2, 3, 5, 8, 11, 14, 18, 22>> }

\* the points that may come at index i of the scenario, after the prefix pts
ScenarioPoints(pts, ramp) ==
    LET i == Len(pts)
        dropped == BaseEle - LastEle(pts)
    IN  IF i <= 9 THEN { [speed |-> ramp[i + 1], ele |-> BaseEle] }
        ELSE IF i = 10 THEN { [speed |-> 25, ele |-> BaseEle] }
        ELSE IF i <= 24
        THEN { [speed |-> 25, ele |-> LastEle(pts) - d] :
                  d \in { e \in 0..1 : /\ dropped + e <= 5
                                       /\ dropped + e + (24 - i) >= 5 } }
        ELSE IF i <= 29 THEN { [speed |-> 0, ele |-> LastEle(pts)] }
        ELSE {}

ScenarioTrack ==
    /\ \E point \in ScenarioPoints(points, feed.ramp) : Iterate(point)
    /\ feed' = feed

ScenarioFinish ==
    /\ ScenarioPoints(points, feed.ramp) = {}
    /\ Finish

InitSeg ==
    /\ points = <<>>
    /\ segments = <<>>
    /\ current_points = <<>>
    /\ current_type = None
    /\ pc = "loop"

\* the geofence is not in use
IdleGeo ==
    /\ polygon = <<>>
    /\ query = <<0, 0>>
    /\ verdicts = <<>>
    /\ registry = <<>>
    /\ found = <<>>

\* identify_runs is not in use: the state at its entry (lines 121-123)
IdleRuns ==
    /\ samples = <<>>
    /\ runs = <<>>
    /\ current_run = <<>>
    /\ in_run = FALSE
    /\ rpc = "loop"
    /\ rfeed = [turns |-> 0]

\* main is not in use
IdleVote ==
    /\ run = <<>>
    /\ run_index = 0
    /\ slope_votes = <<>>
    /\ detected_slopes = {}
    /\ slope_counts = <<>>
    /\ line = <<>>
    /\ vpc = "vote"
    /\ vfeed = [last |-> <<0, 0>>, switches |-> 0]

Init ==
    /\ IdleRuns
    /\ InitSeg
    /\ feed = [kind |-> [speed |-> 0, slope |-> 0], switches |-> 0]
    /\ IdleGeo
    /\ IdleVote

Next == Track \/ Finish

Spec == Init /\ [][Next]_vars

InitScenario ==
    /\ IdleRuns
    /\ InitSeg
    /\ \E ramp \in Ramps : feed = [ramp |-> ramp]
    /\ IdleGeo
    /\ IdleVote

NextScenario == ScenarioTrack \/ ScenarioFinish

SpecScenario == InitScenario /\ [][NextScenario]_vars

---------------------------------------------------------------------------
(* Claims about segment_runs *)

RECURSIVE SegmentIndices(_)
\* the point indices of the segments, concatenated in output order
SegmentIndices(segs) ==
    IF segs = <<>> THEN <<>>
    ELSE segs[1].points \o SegmentIndices(Tail(segs))

\* C1: the segments, concatenated in output order, are a subsequence of the
\* input in the original order (their indices are indices of the input and
\* strictly increase), and no input index belongs to two segments.
C1_Subsequence ==
    LET cat == SegmentIndices(segments)
    IN  /\ \A k \in 1..Len(cat) : cat[k] \in 0..(Len(points) - 1)
        /\ \A k \in 1..(Len(cat) - 1) : cat[k] < cat[k + 1]
        /\ \A a, b \in 1..Len(segments) :
              a # b => { segments[a].points[k] : k \in 1..Len(segments[a].points) }
                       \cap { segments[b].points[k] : k \in 1..Len(segments[b].points) }
                       = {}

\* two segments were returned and some points of the input are in neither
C1_Witness ==
    /\ pc = "done"
    /\ Len(segments) = 2
    /\ Len(SegmentIndices(segments)) < Len(points)

\* C2: every emitted segment, at a commit or at the end of the input, has at
\* least MIN_SEGMENT_POINTS points.
C2_MinimumLength ==
    \A k \in 1..Len(segments) : Len(segments[k].points) >= MIN_SEGMENT_POINTS

\* a segment of exactly 10 points emitted at a commit and one emitted at the end
C2_Witness ==
    /\ pc = "done"
    /\ Len(segments) = 2
    /\ Len(segments[1].points) = MIN_SEGMENT_POINTS
    /\ segments[2].points[Len(segments[2].points)] = Len(points) - 1

\* a step of the for-loop: the loop has read one more point
LoopStep == pc = "loop" /\ Len(points') = Len(points) + 1

\* C3: at point i a transition is committed iff the label of point i differs
\* from the current state and the buffer holds at least MIN_SEGMENT_POINTS
\* points; a commit emits the buffer as one segment of the old state and
\* starts the buffer <<i>> in the new state; otherwise the state stays and
\* point i joins the buffer.
C3_Transition ==
    [][ LoopStep =>
          LET i == Len(points)
              label == NewType(points', i)
              state == IF current_type = None THEN label ELSE current_type
              due == label # state /\ Len(current_points) >= MIN_SEGMENT_POINTS
          IN  /\ (Len(segments') = Len(segments) + 1) <=> due
              /\ due =>
                    /\ SubSeq(segments', 1, Len(segments)) = segments
                    /\ segments'[Len(segments')].points = current_points
                    /\ segments'[Len(segments')].segment_type = state
                    /\ current_points' = <<i>>
                    /\ current_type' = label
              /\ ~due =>
                    /\ segments' = segments
                    /\ current_points' = Append(current_points, i)
                    /\ current_type' = state ]_vars

\* a transition was committed, and the buffer has since absorbed a point
\* whose label differs from the state
C3_Witness ==
    /\ pc = "loop"
    /\ Len(segments) >= 1
    /\ \E k \in 2..Len(current_points) :
          NewType(points, current_points[k]) # current_type

\* the end of the input: segment_runs returns
EndStep == pc = "loop" /\ pc' = "done"

\* C4: at the end of the input the trailing buffer becomes the last segment
\* exactly when it holds at least MIN_SEGMENT_POINTS points and is dropped
\* otherwise; the end can always be taken (no fault); an input shorter than
\* MIN_SEGMENT_POINTS, the empty one included, returns no segment.
C4_EndOfStream ==
    /\ [](pc = "loop" => ENABLED Finish)
    /\ [](pc = "done" /\ Len(points) < MIN_SEGMENT_POINTS => segments = <<>>)
    /\ [][ EndStep =>
             IF Len(current_points) >= MIN_SEGMENT_POINTS
             THEN /\ Len(segments') = Len(segments) + 1
                  /\ SubSeq(segments', 1, Len(segments)) = segments
                  /\ segments'[Len(segments')].points = current_points
                  /\ segments'[Len(segments')].segment_type = current_type
             ELSE segments' = segments ]_vars

\* a returned run that dropped a non-empty trailing buffer after a segment
C4_Witness ==
    /\ pc = "done"
    /\ Len(segments) = 1
    /\ Len(points) > Len(segments[1].points)
    /\ Len(current_points) \in 1..(MIN_SEGMENT_POINTS - 1)

\* the indices 10..24
ScenarioRun == [k \in 1..15 |-> k + 9]

\* C5: the 30-point scenario returns exactly one run segment, which spans the
\* indices 10-24 (15 points) and whose vertical change is negative.
C5_Scenario ==
    pc = "done" =>
       LET found_runs == { k \in 1..Len(segments) : segments[k].segment_type = "run" }
       IN  /\ Cardinality(found_runs) = 1
           /\ \A k \in found_runs : /\ segments[k].points = ScenarioRun
                                     /\ segments[k].vertical_change < 0

\* the scenario was read to its end and the run segment returned
C5_Witness ==
    /\ pc = "done"
    /\ Len(points) = 30
    /\ \E k \in 1..Len(segments) :
          /\ segments[k].segment_type = "run"
          /\ segments[k].vertical_change = -5

---------------------------------------------------------------------------
(* verify_slopes.py: contains_coordinate, find_slope *)

\* what a call does: it returns a boolean, or it raises ZeroDivisionError
Returned(value) == [raised |-> FALSE, inside |-> value]

ZeroDivisionError == [raised |-> TRUE, inside |-> FALSE]

\* a straddle test that counts an endpoint on the query longitude as beyond it
StraddlesInclusive(yi, yj, lon) == (yi >= lon) # (yj > lon)

\* (yi > lon) != (yj > lon)
Straddles(yi, yj, lon) == (yi > lon) # (yj > lon)

\* lat < (xj - xi) * (lon - yi) / (yj - yi) + xi, for yj # yi: both sides
\* multiplied by yj - yi, the comparison turned when yj - yi is negative
BelowCrossing(xi, yi, xj, yj, lat, lon) ==
    LET d == yj - yi
    IN  IF d > 0
        THEN (lat - xi) * d < (xj - xi) * (lon - yi)
        ELSE (lat - xi) * d > (xj - xi) * (lon - yi)

\* the condition of the if of lines 75-76, evaluated left to right: "keep"
\* when it is false, "toggle" when it is true, "raise" when the division is
\* evaluated with yj - yi = 0
EdgeTest(xi, yi, xj, yj, lat, lon) ==
    IF ~Straddles(yi, yj, lon) THEN "keep"
    ELSE IF yj - yi = 0 THEN "raise"
    ELSE IF BelowCrossing(xi, yi, xj, yj, lat, lon) THEN "toggle"
    ELSE "keep"

\* a ring that is not closed: the first edge starts at the first vertex
InitialJFirst(n) == 0

\* j = n - 1
InitialJ(n) == n - 1

RECURSIVE RayLoop(_, _, _, _, _, _)
\* for i in range(n): ...; j = i  (i and j count from 0)
RayLoop(poly, lat, lon, i, j, is_inside) ==
    IF i >= Len(poly) THEN Returned(is_inside)
    ELSE LET xi == poly[i + 1][1]
             yi == poly[i + 1][2]
             xj == poly[j + 1][1]
             yj == poly[j + 1][2]
             test == EdgeTest(xi, yi, xj, yj, lat, lon)
         IN  IF test = "raise" THEN ZeroDivisionError
             ELSE RayLoop(poly, lat, lon, i + 1, i,
                          IF test = "toggle" THEN ~is_inside ELSE is_inside)

contains_coordinate(poly, lat, lon) ==
    IF Len(poly) < 3 THEN Returned(FALSE)
    ELSE RayLoop(poly, lat, lon, 0, InitialJ(Len(poly)), FALSE)

RECURSIVE FindLast(_, _, _, _, _)
FindLast(reg, k, lat, lon, best) ==
    IF k > Len(reg) THEN best
    ELSE FindLast(reg, k + 1, lat, lon,
                  IF contains_coordinate(reg[k].polygon, lat, lon).inside
                  THEN reg[k].name ELSE best)

\* a find_slope that keeps looking after a match
find_slope_last(reg, lat, lon) == FindLast(reg, 1, lat, lon, None)

RECURSIVE FindFrom(_, _, _, _)
\* for name, polygon in SLOPE_DEFINITIONS.items(): ... return name; return None
FindFrom(reg, k, lat, lon) ==
    IF k > Len(reg) THEN None
    ELSE LET outcome == contains_coordinate(reg[k].polygon, lat, lon)
         IN  IF outcome.raised THEN "ZeroDivisionError"
             ELSE IF outcome.inside THEN reg[k].name
             ELSE FindFrom(reg, k + 1, lat, lon)

find_slope(reg, lat, lon) == FindFrom(reg, 1, lat, lon)

\* the registry of the code, in microdegrees
SLOPE_DEFINITIONS ==
    << [name |-> "APOLLO VI",
        polygon |-> << <<37185625, 128817298>>, <<37185625, 128823481>>,
                       <<37183367, 128823481>>, <<37183367, 128817298>> >>],
       [name |-> "HERA II",
        polygon |-> << <<37190233, 128817327>>, <<37190233, 128828115>>,
                       <<37183076, 128828115>>, <<37183076, 128817327>> >>],
       [name |-> "ZEUS III",
        polygon |-> << <<37197708, 128827842>>, <<37197708, 128832255>>,
                       <<37190316, 128832255>>, <<37190316, 128827842>> >>],
       [name |-> "ATHENA II",
        polygon |-> << <<37199586, 128820060>>, <<37199586, 128832025>>,
                       <<37183794, 128832025>>, <<37183794, 128820060>> >>] >>

---------------------------------------------------------------------------
(* The polygons, registries and coordinates handed to the geofence *)

\* the most vertices of a polygon
MaxVertices == 4

\* the most polygons of a registry
MaxZones == 3

GridVertices == { <<lat, lon>> : lat \in {0, 10}, lon \in {0, 5, 10} }

\* every vertex list of at most MaxVertices grid vertices, repeated and
\* collinear vertices included
Polygons == UNION { [1..n -> GridVertices] : n \in 0..MaxVertices }

Queries == { <<lat, lon>> : lat \in {0, 5, 15}, lon \in {0, 5, 10, 15} }

\* the square of the point-in-polygon property
Square == << <<0, 0>>, <<0, 10>>, <<10, 10>>, <<10, 0>> >>

\* the ring started at its (k+1)-th vertex
Rotate(poly, k) ==
    [m \in 1..Len(poly) |-> poly[((m - 1 + k) % Len(poly)) + 1]]

\* the square, a square east of it, a rectangle over both, and two vertices
ZonePolygons ==
    { Square,
      << <<0, 10>>, <<0, 20>>, <<10, 20>>, <<10, 10>> >>,
      << <<0, 0>>, <<0, 20>>, <<10, 20>>, <<10, 0>> >>,
      << <<0, 0>>, <<10, 10>> >> }

ZoneNames == {"A", "B", "C", "D"}

\* a dict: no name twice
Registries ==
    { reg \in UNION { [1..n -> [name : ZoneNames, polygon : ZonePolygons]] :
                        n \in 0..MaxZones } :
         \A a, b \in 1..Len(reg) : a # b => reg[a].name # reg[b].name }

\* coordinates on the resort, in microdegrees: in APOLLO VI (and HERA II and
\* ATHENA II), in HERA II only, in ZEUS III (and ATHENA II), in ATHENA II
\* only, in no polygon
ResortQueries ==
    { <<37184000, 128821000>>, <<37188000, 128819000>>,
      <<37195000, 128830000>>, <<37198000, 128825000>>,
      <<37200000, 128840000>> }

\* the segmenter is not in use
IdleSeg ==
    /\ InitSeg
    /\ feed = [kind |-> [speed |-> 0, slope |-> 0], switches |-> 0]

\* one call of contains_coordinate, on the ring started at its next vertex
Classify ==
    /\ Len(verdicts) < (IF polygon = <<>> THEN 1 ELSE Len(polygon))
    /\ verdicts' = Append(verdicts,
                       contains_coordinate(Rotate(polygon, Len(verdicts)),
                                           query[1], query[2]))
    /\ UNCHANGED <<polygon, query, registry, found>>
    /\ UNCHANGED <<segVars, voteVars, runVars>>

InitGeo ==
    /\ IdleRuns
    /\ IdleSeg
    /\ IdleVote
    /\ polygon \in Polygons
    /\ query \in Queries
    /\ verdicts = <<>>
    /\ registry = <<>>
    /\ found = <<>>

SpecGeo == InitGeo /\ [][Classify]_vars

\* one call of find_slope
FindSlope ==
    /\ found = <<>>
    /\ found' = <<find_slope(registry, query[1], query[2])>>
    /\ UNCHANGED <<polygon, query, verdicts, registry>>
    /\ UNCHANGED <<segVars, voteVars, runVars>>

InitFind ==
    /\ IdleRuns
    /\ IdleSeg
    /\ IdleVote
    /\ polygon = <<>>
    /\ verdicts = <<>>
    /\ \/ registry \in Registries /\ query \in Queries
       \/ registry = SLOPE_DEFINITIONS /\ query \in ResortQueries
    /\ found = <<>>

SpecFind == InitFind /\ [][FindSlope]_vars

---------------------------------------------------------------------------
(* Claims about contains_coordinate and find_slope *)

\* C6: the result of contains_coordinate is the same for every rotation of
\* the vertex list; for the square (0,0),(0,10),(10,10),(10,0) the point
\* (5,5) is inside and the point (15,15) is outside.
C6_RotationInvariant ==
    /\ \A a, b \in 1..Len(verdicts) : verdicts[a] = verdicts[b]
    /\ polygon \in { Rotate(Square, k) : k \in 0..3 } =>
          \A a \in 1..Len(verdicts) :
             /\ query = <<5, 5>> => verdicts[a] = Returned(TRUE)
             /\ query = <<15, 15>> => verdicts[a] = Returned(FALSE)

\* a polygon of distinct vertices, other than a rectangle, classified at
\* every rotation with the point inside
C6_Witness ==
    /\ Len(polygon) >= 3
    /\ Len(verdicts) = Len(polygon)
    /\ Cardinality({ polygon[k] : k \in 1..Len(polygon) }) = Len(polygon)
    /\ <<10, 5>> \in { polygon[k] : k \in 1..Len(polygon) }
    /\ verdicts[1] = Returned(TRUE)

\* the edges (v[j], v[i]) of a ring, j the predecessor of i
Edges(poly) ==
    { <<poly[IF k = 1 THEN Len(poly) ELSE k - 1], poly[k]>> : k \in 1..Len(poly) }

\* C7: contains_coordinate never faults: a polygon of fewer than 3 vertices
\* yields false, and an edge whose endpoints have equal longitude is never
\* interpolated (no division by zero) and counts as non-crossing.
C7_NoFault ==
    /\ \A a \in 1..Len(verdicts) :
          /\ ~verdicts[a].raised
          /\ Len(polygon) < 3 => ~verdicts[a].inside
    /\ \A e \in Edges(polygon) :
          e[1][2] = e[2][2] =>
             EdgeTest(e[2][1], e[2][2], e[1][1], e[1][2], query[1], query[2]) = "keep"

\* a polygon with an edge of zero longitude span on the query longitude was
\* classified, and the point is inside
C7_Witness ==
    /\ Len(polygon) >= 3
    /\ \E e \in Edges(polygon) :
          e[1][2] = e[2][2] /\ e[1][2] = query[2] /\ e[1] # e[2]
    /\ Len(verdicts) >= 1
    /\ verdicts[1] = Returned(TRUE)

\* the places of the registry whose polygon contains the query point
Containing ==
    { k \in 1..Len(registry) :
         contains_coordinate(registry[k].polygon, query[1], query[2]).inside }

\* C8: find_slope returns the name of the first polygon, in registry order,
\* that contains the point, and None exactly when no polygon contains it.
C8_FirstMatch ==
    found # <<>> =>
       /\ found[1] = None <=> Containing = {}
       /\ Containing # {} =>
             \E k \in Containing :
                /\ found[1] = registry[k].name
                /\ \A m \in Containing : k <= m

\* the first polygon of the registry does not contain the point, two later
\* ones do, and the earlier of the two was returned
C8_Witness ==
    /\ found # <<>>
    /\ Cardinality(Containing) >= 2
    /\ \E k \in Containing : k > 1 /\ found[1] = registry[k].name

---------------------------------------------------------------------------
(* verify_slopes.py: main, the majority vote of lines 154-179 *)

\* the most points of a run
MaxRunLen == 22

\* the most runs of a session
MaxRuns == 2

\* identify_runs hands over a run only when len(current_run) > 20
MIN_RUN_POINTS == 20

\* a tally that puts a new key in front of the others
AddVoteFront(votes, slope) ==
    IF \E k \in 1..Len(votes) : votes[k].slope = slope
    THEN [k \in 1..Len(votes) |->
            IF votes[k].slope = slope
            THEN [slope |-> slope, votes |-> votes[k].votes + 1]
            ELSE votes[k]]
    ELSE <<[slope |-> slope, votes |-> 1]>> \o votes

\* slope_votes[slope] += 1: a new key goes last (dict insertion order)
AddVote(votes, slope) ==
    IF \E k \in 1..Len(votes) : votes[k].slope = slope
    THEN [k \in 1..Len(votes) |->
            IF votes[k].slope = slope
            THEN [slope |-> slope, votes |-> votes[k].votes + 1]
            ELSE votes[k]]
    ELSE Append(votes, [slope |-> slope, votes |-> 1])

RECURSIVE MaxKey(_, _, _, _)
\* max(iterable, key=...): the scan keeps the first largest element (strict),
\* or the last one (not strict)
MaxKey(votes, k, best, strict) ==
    IF k > Len(votes) THEN best
    ELSE MaxKey(votes, k + 1,
                IF \/ votes[k].votes > votes[best].votes
                   \/ ~strict /\ votes[k].votes = votes[best].votes
                THEN k ELSE best,
                strict)

\* a max that returns the last key of the largest value
PrimarySlopeLast(votes) == votes[MaxKey(votes, 2, 1, FALSE)].slope

\* primary_slope = max(slope_votes, key=slope_votes.get)
PrimarySlope(votes) == votes[MaxKey(votes, 2, 1, TRUE)].slope

RECURSIVE VotesFrom(_, _)
\* the votes of the tally from its k-th key on, added up
VotesFrom(votes, k) ==
    IF k > Len(votes) THEN 0 ELSE votes[k].votes + VotesFrom(votes, k + 1)

\* a numerator that counts every matched point
VotesForAll(votes, slope) == VotesFrom(votes, 1)

\* slope_votes[primary_slope]
VotesFor(votes, slope) ==
    votes[CHOOSE k \in 1..Len(votes) : votes[k].slope = slope].votes

\* f"{percentage:.1f}" of (votes / len(run)) * 100, in tenths of a percent
\* (no run of 21 to 25 points has a percentage halfway between two tenths)
Percentage(votes, n) == (2000 * votes + n) \div (2 * n)

\* slope_counts[primary_slope] += 1, on a defaultdict(int)
CountRun(counts, slope) ==
    [k \in DOMAIN counts \cup {slope} |->
        IF k \in DOMAIN counts
        THEN counts[k] + (IF k = slope THEN 1 ELSE 0)
        ELSE 1]

\* a test that counts a point outside every polygon as a match
MatchesAlways(slope) == TRUE

\* if slope: (None is false, a name is true)
Matches(slope) == slope # None

\* one iteration of the inner loop (lines 160-164), on the next point of the
\* run; after a printed line it is the first of the next run (lines 157-158)
VotePoint(p) ==
    /\ vpc \in {"vote", "printed"}
    /\ LET fresh == vpc = "printed"
           votes == IF fresh THEN <<>> ELSE slope_votes
           detected == IF fresh THEN {} ELSE detected_slopes
           slope == find_slope(registry, p[1], p[2])
       IN  /\ run' = Append(IF fresh THEN <<>> ELSE run, p)
           /\ IF Matches(slope)
              THEN /\ detected_slopes' = detected \cup {slope}
                   /\ slope_votes' = AddVote(votes, slope)
              ELSE /\ detected_slopes' = detected
                   /\ slope_votes' = votes
    /\ line' = <<>>
    /\ vpc' = "vote"
    /\ UNCHANGED <<run_index, slope_counts>>
    /\ UNCHANGED <<segVars, geoVars, runVars>>

\* the end of the inner loop: lines 166-175
CloseRun ==
    /\ vpc = "vote"
    /\ Len(run) > MIN_RUN_POINTS
    /\ IF slope_votes # <<>>
       THEN LET primary_slope == PrimarySlope(slope_votes)
            IN  /\ line' = <<[ run |-> run_index + 1,
                               points |-> Len(run),
                               result_str |-> primary_slope,
                               percentage |->
                                  <<Percentage(VotesFor(slope_votes, primary_slope),
                                               Len(run))>> ]>>
                /\ slope_counts' = CountRun(slope_counts, primary_slope)
       ELSE /\ line' = <<[ run |-> run_index + 1,
                           points |-> Len(run),
                           result_str |-> "Unknown",
                           percentage |-> <<>> ]>>
            /\ slope_counts' = slope_counts
    /\ run_index' = run_index + 1
    /\ vpc' = "printed"
    /\ UNCHANGED <<run, slope_votes, detected_slopes, vfeed>>
    /\ UNCHANGED <<segVars, geoVars, runVars>>

\* the end of the outer loop: the summary of lines 177-179
Summary ==
    /\ \/ vpc = "printed"
       \/ vpc = "vote" /\ run = <<>>
    /\ vpc' = "done"
    /\ UNCHANGED <<run, run_index, slope_votes, detected_slopes, slope_counts,
                   line, vfeed>>
    /\ UNCHANGED <<segVars, geoVars, runVars>>

\* the places a run goes through, in the order of the round: in ZEUS III
\* (and ATHENA II), in APOLLO VI (and HERA II and ATHENA II), in no polygon
VotePlaces ==
    << <<37195000, 128830000>>, <<37184000, 128821000>>, <<37200000, 128840000>> >>

\* the place after a place of the round
NextPlace(p) ==
    LET k == CHOOSE n \in 1..Len(VotePlaces) : VotePlaces[n] = p
    IN  VotePlaces[(k % Len(VotePlaces)) + 1]

\* a session of at most MaxRuns runs of at most MaxRunLen points; a run
\* starts at any place, stays or moves on to the next place of the round,
\* and moves at most MaxSwitches times
VoteTrack ==
    LET fresh == vpc = "printed"
        first == fresh \/ run = <<>>
        before == IF first THEN 0 ELSE vfeed.switches
    IN  /\ fresh => run_index < MaxRuns
        /\ ~fresh => Len(run) < MaxRunLen
        /\ \E p \in { VotePlaces[n] : n \in 1..Len(VotePlaces) } :
              LET turn == ~first /\ p # vfeed.last
              IN  /\ turn => before < MaxSwitches /\ p = NextPlace(vfeed.last)
                  /\ vfeed' = [ last |-> p,
                                switches |-> IF turn THEN before + 1 ELSE before ]
                  /\ VotePoint(p)

InitVote ==
    /\ IdleRuns
    /\ IdleSeg
    /\ polygon = <<>>
    /\ query = <<0, 0>>
    /\ verdicts = <<>>
    /\ found = <<>>
    /\ registry = SLOPE_DEFINITIONS
    /\ IdleVote

NextVote == VoteTrack \/ CloseRun \/ Summary

SpecVote == InitVote /\ [][NextVote]_vars

---------------------------------------------------------------------------
(* Claims about the majority vote *)

RECURSIVE LabelsFrom(_, _)
\* what find_slope returns for the points from the k-th of the run on; known
\* holds the points already classified, each with what find_slope returned
LabelsFrom(k, known) ==
    IF k > Len(run) THEN <<>>
    ELSE LET hit   == { q \in 1..Len(known) : known[q].point = run[k] }
             slope == IF hit # {}
                      THEN known[CHOOSE q \in hit : TRUE].slope
                      ELSE find_slope(registry, run[k][1], run[k][2])
             learnt == IF hit # {} THEN known
                       ELSE Append(known, [point |-> run[k], slope |-> slope])
         IN  <<slope>> \o LabelsFrom(k + 1, learnt)

\* what find_slope returns for the points of the run, in order
Labels == LabelsFrom(1, <<>>)

RECURSIVE EncounterFrom(_, _, _)
\* the distinct zones of the labels from the k-th on that are not in seen,
\* appended to seen in the order in which they are first met
EncounterFrom(labels, k, seen) ==
    IF k > Len(labels) THEN seen
    ELSE IF \/ labels[k] = None
            \/ \E q \in 1..Len(seen) : seen[q] = labels[k]
         THEN EncounterFrom(labels, k + 1, seen)
         ELSE EncounterFrom(labels, k + 1, Append(seen, labels[k]))

\* the zones of a sequence of labels, in the order in which they are first met
Encounter(labels) == EncounterFrom(labels, 1, <<>>)

RECURSIVE TallyFrom(_, _, _)
\* how many labels from the k-th on are the zone
TallyFrom(labels, zone, k) ==
    IF k > Len(labels) THEN 0
    ELSE (IF labels[k] = zone THEN 1 ELSE 0) + TallyFrom(labels, zone, k + 1)

RECURSIVE TalliesFrom(_, _, _)
\* the tallies of the zones of the order from the q-th on
TalliesFrom(labels, order, q) ==
    IF q > Len(order) THEN <<>>
    ELSE <<TallyFrom(labels, order[q], 1)>> \o TalliesFrom(labels, order, q + 1)

\* the tallies of the zones of the order, over the labels
Tallies(labels, order) == TalliesFrom(labels, order, 1)

\* the place of a zone in the tally
PlaceInTally(zone) ==
    CHOOSE k \in 1..Len(slope_votes) : slope_votes[k].slope = zone

\* the place of a zone in the registry
PlaceInRegistry(zone) ==
    CHOOSE k \in 1..Len(registry) : registry[k].name = zone

\* C9: a run is assigned to the zone with the most matched points; among the
\* zones that share the highest tally the winner is the one met first in
\* point order (the one inserted first into the tally), whatever the order
\* of the registry.
C9_MajorityFirstEncountered ==
    vpc = "printed" /\ slope_votes # <<>> =>
       \A labels \in {Labels} :
          \A order \in {Encounter(labels)} :
             \A tally \in {Tallies(labels, order)} :
                \E w \in 1..Len(order) :
                   /\ order[w] = line[1].result_str
                   /\ \A q \in 1..Len(order) :
                         /\ tally[q] <= tally[w]
                         /\ q # w /\ tally[q] = tally[w] =>
                               /\ w < q
                               /\ PlaceInTally(order[w]) < PlaceInTally(order[q])

\* two zones tie, and the winner comes after the other one in the registry
C9_Witness ==
    /\ vpc = "printed"
    /\ slope_votes # <<>>
    /\ \E labels \in {Labels} :
          \E zone \in { labels[k] : k \in 1..Len(labels) } \ {None} :
             /\ zone # line[1].result_str
             /\ TallyFrom(labels, zone, 1) = TallyFrom(labels, line[1].result_str, 1)
             /\ PlaceInRegistry(zone) < PlaceInRegistry(line[1].result_str)

\* the zones of the matched points of the run, in point order
Matched == SelectSeq(Labels, LAMBDA zone : zone # None)

\* C10: when zones tie for the highest tally, the assigned zone is the first
\* zone, in encounter order, whose tally is the peak; for points classified
\* A, A, B, B in that order the assigned zone is A.
C10_TieBreak ==
    vpc = "printed" /\ slope_votes # <<>> =>
       \A matched \in {Matched} :
          \A order \in {Encounter(matched)} :
             \A tally \in {Tallies(matched, order)} :
                LET peak  == MaxOf({ tally[q] : q \in 1..Len(order) })
                    first == CHOOSE q \in 1..Len(order) :
                                /\ tally[q] = peak
                                /\ \A m \in 1..(q - 1) : tally[m] < peak
                IN  /\ line[1].result_str = order[first]
                    /\ ( /\ Len(matched) = 4
                         /\ matched[1] = matched[2]
                         /\ matched[3] = matched[4]
                         /\ matched[1] # matched[3] ) =>
                            line[1].result_str = matched[1]

\* the matched points of a run are A, A, B, B, with B before A in the
\* registry, and the run is assigned to A
C10_Witness ==
    /\ vpc = "printed"
    /\ Matched = <<"ZEUS III", "ZEUS III", "APOLLO VI", "APOLLO VI">>
    /\ line[1].result_str = "ZEUS III"

\* the run just closed has no point in any polygon
Unmatched == \A labels \in {Labels} : \A k \in 1..Len(labels) : labels[k] = None

\* the run counts of all zones, added up
RECURSIVE SumOver(_, _)
SumOver(counts, keys) ==
    IF keys = {} THEN 0
    ELSE LET k == CHOOSE x \in keys : TRUE
         IN  counts[k] + SumOver(counts, keys \ {k})

---------------------------------------------------------------------------
(* The majority vote over other registries *)

\* the zone of the scenario, under the name the code's registry gives it
ZEUS == "ZEUS III"

\* the registries made of at most MaxZones polygons of SLOPE_DEFINITIONS, in
\* any order, that hold the polygon named ZEUS
ZeusRegistries ==
    { reg \in UNION { [1..n -> { SLOPE_DEFINITIONS[k] : k \in 1..Len(SLOPE_DEFINITIONS) }] :
                        n \in 1..MaxZones } :
         /\ \A a, b \in 1..Len(reg) : a # b => reg[a].name # reg[b].name
         /\ \E k \in 1..Len(reg) : reg[k].name = ZEUS }

\* a place in ZEUS III (and in ATHENA II), a place in ATHENA II only
ZeusPlaces == { <<37195000, 128830000>>, <<37198000, 128825000>> }

\* a session of at most MaxRuns runs of at most MaxRunLen points; a run
\* starts at either place and moves to the other one at most once
ZeusTrack ==
    LET fresh == vpc = "printed"
        first == fresh \/ run = <<>>
    IN  /\ fresh => run_index < MaxRuns
        /\ ~fresh => Len(run) < MaxRunLen
        /\ \E p \in ZeusPlaces :
              LET turn == ~first /\ p # vfeed.last
              IN  /\ turn => vfeed.switches = 0
                  /\ vfeed' = [ last |-> p,
                                switches |-> IF first THEN 0
                                             ELSE IF turn THEN 1
                                             ELSE vfeed.switches ]
                  /\ VotePoint(p)

InitZeus ==
    /\ IdleRuns
    /\ IdleSeg
    /\ polygon = <<>>
    /\ query = <<0, 0>>
    /\ verdicts = <<>>
    /\ found = <<>>
    /\ registry \in ZeusRegistries
    /\ IdleVote

NextZeus == ZeusTrack \/ CloseRun \/ Summary

SpecZeus == InitZeus /\ [][NextZeus]_vars

---------------------------------------------------------------------------
(* Claims about the run inside one zone *)

\* the place of the polygon named ZEUS in the registry
ZeusPlace == CHOOSE k \in 1..Len(registry) : registry[k].name = ZEUS

\* the distinct points of the run
RunPoints == { run[k] : k \in 1..Len(run) }

\* every point of the run is inside the polygon named ZEUS
AllInZeus ==
    \A p \in RunPoints :
       contains_coordinate(registry[ZeusPlace].polygon, p[1], p[2]).inside

\* no point of the run is inside a polygon that comes before ZEUS
NoneInEarlier ==
    \A p \in RunPoints : \A k \in 1..(ZeusPlace - 1) :
       ~contains_coordinate(registry[k].polygon, p[1], p[2]).inside

\* the run is assigned ZEUS at 100.0 %, and the run count of ZEUS goes up by 1
ZeusCounted ==
    /\ line'[1].result_str = ZEUS
    /\ line'[1].percentage = <<1000>>
    /\ ZEUS \in DOMAIN slope_counts'
    /\ slope_counts'[ZEUS] =
          (IF ZEUS \in DOMAIN slope_counts THEN slope_counts[ZEUS] ELSE 0) + 1

\* the outer loop closes a run
CloseStep == vpc = "vote" /\ vpc' = "printed"

\* C12 as stated: whatever the registry that holds ZEUS, a run whose points
\* are all inside ZEUS is assigned ZEUS with confidence 1.0 and the run count
\* of ZEUS goes up by 1.
C12_AnyRegistry ==
    [][ CloseStep /\ AllInZeus => ZeusCounted ]_vars

\* C12, amended: the same, for a run none of whose points is inside a
\* polygon that precedes ZEUS in the registry.
C12_ZeusRun ==
    [][ CloseStep /\ AllInZeus /\ NoneInEarlier => ZeusCounted ]_vars

\* ZEUS comes second in the registry, and a second run inside ZEUS has been
\* assigned to it at 100.0 %
C12_Witness ==
    /\ vpc = "printed"
    /\ Len(registry) >= 2
    /\ registry[2].name = ZEUS
    /\ AllInZeus
    /\ line[1].result_str = ZEUS
    /\ line[1].percentage = <<1000>>
    /\ slope_counts = [z \in {ZEUS} |-> 2]

---------------------------------------------------------------------------
(* Claims about the run counts *)

\* C13: after the aggregation the run counts of all zones add up to the
\* number of runs of the session (every run is in the entry of its zone
\* exactly once).
C13_RunCountSum ==
    vpc = "done" => SumOver(slope_counts, DOMAIN slope_counts) = run_index

---------------------------------------------------------------------------
(* The same input handed over twice *)

\* a current_type that survives the return of segment_runs
EntryTypeKept(left) == left

\* current_type = None, at the entry of segment_runs (line 111): left is
\* what the previous call left behind
EntryType(left) == None

\* a slope_counts that survives the return of main
EntryCountsKept(left) == left

\* slope_counts = defaultdict(int), at the entry of main (line 154): left is
\* what the previous call left behind
EntryCounts(left) == <<>>

\* main has not started
VoteIdle ==
    run = <<>> /\ run_index = 0 /\ vpc = "vote" /\ "log" \in DOMAIN vfeed

\* segment_runs has not started
SegIdle == points = <<>> /\ pc = "loop" /\ "kind" \in DOMAIN feed

\* the first call of segment_runs, on a track of at most MaxPoints points
\* that changes its kind of motion at most once
TwiceTrack ==
    /\ VoteIdle
    /\ "kind" \in DOMAIN feed
    /\ Len(points) < MaxPoints
    /\ \E k \in Kinds :
          /\ \/ points = <<>>
             \/ k = feed.kind
             \/ feed.switches = 0
          /\ feed' = [ kind |-> k,
                       switches |-> IF points = <<>> \/ k = feed.kind
                                    THEN feed.switches ELSE 1 ]
          /\ Iterate([speed |-> k.speed, ele |-> LastEle(points) + k.slope])

\* the first call of segment_runs returns
TwiceFinish == VoteIdle /\ "kind" \in DOMAIN feed /\ Finish

\* the caller keeps the track and the result and calls segment_runs again:
\* lines 109-111
SegAgain ==
    /\ pc = "done"
    /\ "kind" \in DOMAIN feed
    /\ feed' = [track |-> points, out |-> segments]
    /\ points' = <<>>
    /\ segments' = <<>>
    /\ current_points' = <<>>
    /\ current_type' = EntryType(current_type)
    /\ pc' = "loop"
    /\ UNCHANGED <<geoVars, voteVars, runVars>>

\* the second call reads the next point of the same track
SegReplay ==
    /\ "track" \in DOMAIN feed
    /\ Len(points) < Len(feed.track)
    /\ Iterate(feed.track[Len(points) + 1])
    /\ feed' = feed

\* the second call returns
SegReplayFinish ==
    /\ "track" \in DOMAIN feed
    /\ Len(points) = Len(feed.track)
    /\ Finish

\* the first call of main, on at most MaxRuns runs of at most MaxRunLen
\* points, each run at one place; the caller keeps the runs and the lines
TwiceVoteTrack ==
    LET fresh == vpc = "printed"
        first == fresh \/ run = <<>>
    IN  /\ SegIdle
        /\ "log" \in DOMAIN vfeed
        /\ fresh => run_index < MaxRuns
        /\ ~fresh => Len(run) < MaxRunLen
        /\ \E p \in { VotePlaces[n] : n \in 1..Len(VotePlaces) } :
              /\ ~first => p = run[Len(run)]
              /\ vfeed' = [ log |-> IF fresh
                                    THEN Append(vfeed.log, [run |-> run, line |-> line[1]])
                                    ELSE vfeed.log ]
              /\ VotePoint(p)

TwiceClose == SegIdle /\ "log" \in DOMAIN vfeed /\ CloseRun

TwiceSummary == SegIdle /\ "log" \in DOMAIN vfeed /\ Summary

\* the caller keeps the runs, the lines and the counts and calls main again
\* on the same runs: line 154, and lines 157-158 for the first run
VoteAgain ==
    /\ vpc = "done"
    /\ "log" \in DOMAIN vfeed
    /\ LET log == IF run_index > 0
                  THEN Append(vfeed.log, [run |-> run, line |-> line[1]])
                  ELSE vfeed.log
       IN  vfeed' = [ runs   |-> [k \in 1..Len(log) |-> log[k].run],
                      lines  |-> [k \in 1..Len(log) |-> log[k].line],
                      counts |-> slope_counts ]
    /\ slope_counts' = EntryCounts(slope_counts)
    /\ run_index' = 0
    /\ run' = <<>>
    /\ slope_votes' = <<>>
    /\ detected_slopes' = {}
    /\ line' = <<>>
    /\ vpc' = "vote"
    /\ UNCHANGED <<segVars, geoVars, runVars>>

\* the second call reads the next point of the same run
VoteReplay ==
    /\ "runs" \in DOMAIN vfeed
    /\ vpc \in {"vote", "printed"}
    /\ run_index < Len(vfeed.runs)
    /\ LET seen == IF vpc = "printed" THEN <<>> ELSE run
       IN  /\ Len(seen) < Len(vfeed.runs[run_index + 1])
           /\ VotePoint(vfeed.runs[run_index + 1][Len(seen) + 1])
    /\ vfeed' = vfeed

\* the second call closes a run that it has read to its end
VoteReplayClose ==
    /\ "runs" \in DOMAIN vfeed
    /\ run_index < Len(vfeed.runs)
    /\ run = vfeed.runs[run_index + 1]
    /\ CloseRun

\* the second call has closed every run
VoteReplaySummary ==
    /\ "runs" \in DOMAIN vfeed
    /\ run_index = Len(vfeed.runs)
    /\ Summary

InitTwice ==
    /\ IdleRuns
    /\ InitSeg
    /\ feed = [kind |-> [speed |-> 0, slope |-> 0], switches |-> 0]
    /\ polygon = <<>>
    /\ query = <<0, 0>>
    /\ verdicts = <<>>
    /\ found = <<>>
    /\ registry = SLOPE_DEFINITIONS
    /\ run = <<>>
    /\ run_index = 0
    /\ slope_votes = <<>>
    /\ detected_slopes = {}
    /\ slope_counts = <<>>
    /\ line = <<>>
    /\ vpc = "vote"
    /\ vfeed = [log |-> <<>>]

NextTwice ==
    \/ TwiceTrack
    \/ TwiceFinish
    \/ SegAgain
    \/ SegReplay
    \/ SegReplayFinish
    \/ TwiceVoteTrack
    \/ TwiceClose
    \/ TwiceSummary
    \/ VoteAgain
    \/ VoteReplay
    \/ VoteReplayClose
    \/ VoteReplaySummary

SpecTwice == InitTwice /\ [][NextTwice]_vars

---------------------------------------------------------------------------
(* Claims about the same input handed over twice *)

---------------------------------------------------------------------------
(* Claims about the label of a point *)

\* the label as the claim words it, from the speed (in 0.01 km/h), from
\* whether the elevation delta is available, and from the delta d
LabelOf(speed_kmh, available, d) ==
    IF speed_kmh > 500
    THEN (IF available /\ d > 3 THEN "lift" ELSE "run")
    ELSE IF speed_kmh > 200
    THEN (IF ~available \/ d > 2 THEN "lift" ELSE "rest")
    ELSE "rest"

\* the label of point i as the claim words it
LabelAt(i) ==
    LabelOf(SpeedKmh(At(points, i)), i > 5,
            IF i > 5 THEN At(points, i).ele - At(points, i - 5).ele ELSE 0)

---------------------------------------------------------------------------
(* Claims about the type of a segment *)

\* C16: the first point seeds the state with its label, whatever the length
\* of the buffer; from then on the state is the label of the first point of
\* the buffer, and the type of every emitted segment is the label of its
\* first point.
C16_TypeOfFirstPoint ==
    /\ Len(points) = 1 => current_points = <<0>> /\ current_type = NewType(points, 0)
    /\ points # <<>> =>
          /\ current_points # <<>>
          /\ current_type = NewType(points, current_points[1])
    /\ \A k \in 1..Len(segments) :
          segments[k].segment_type = NewType(points, segments[k].points[1])
    /\ segments # <<>> => segments[1].points[1] = 0

\* two segments were returned; the first one holds a point whose label is
\* not its type, and the second one starts at the point that triggered the
\* transition
C16_Witness ==
    /\ pc = "done"
    /\ Len(segments) = 2
    /\ \E n \in 2..Len(segments[1].points) :
          NewType(points, segments[1].points[n]) # segments[1].segment_type
    /\ NewType(points, segments[2].points[1]) = segments[2].segment_type
    /\ segments[2].segment_type # segments[1].segment_type

---------------------------------------------------------------------------
(* Claims about the confidence *)

\* C17: the confidence of a matched run is the number of its points that
\* were classified into the winning zone, divided by the number of all its
\* points: it is above 0 and at most 1, and it is 1 exactly when every point
\* was classified into the winning zone.  The printed percentage is that
\* share, times 100, rounded to one decimal.
C17_Confidence ==
    vpc = "printed" /\ slope_votes # <<>> =>
       \A labels \in {Labels} :
          LET winner == line[1].result_str
              votes  == VotesFor(slope_votes, winner)
              n      == Len(run)
              shown  == line[1].percentage[1]
          IN  /\ votes = TallyFrom(labels, winner, 1)
              /\ n = Len(labels)
              /\ 0 < votes /\ votes <= n
              /\ votes = n <=> \A k \in 1..n : labels[k] = winner
              /\ 2 * n * shown - 2000 * votes > -n
              /\ 2 * n * shown - 2000 * votes <= n

\* a run with points of the winning zone, points of another zone and
\* unmatched points was printed
C17_Witness ==
    /\ vpc = "printed"
    /\ Len(slope_votes) = 2
    /\ \E k \in 1..Len(run) : find_slope(registry, run[k][1], run[k][2]) = None
    /\ line[1].percentage[1] < 500

---------------------------------------------------------------------------
(* Claims about the cover of the input *)

\* C18: the segments, one after the other, are the indices 0, 1, 2, ... with
\* no gap: the first segment starts at index 0 and every other one right
\* after the end of the one before it; inside the loop the rest of the
\* input read so far is the buffer, and after the return the points in no
\* segment are a suffix of fewer than MIN_SEGMENT_POINTS points.
C18_PrefixCover ==
    LET cat == SegmentIndices(segments)
    IN  /\ \A k \in 1..Len(cat) : cat[k] = k - 1
        /\ \A k \in 2..Len(segments) :
              segments[k].points[1] =
                 segments[k - 1].points[Len(segments[k - 1].points)] + 1
        /\ pc = "loop" =>
              cat \o current_points = [k \in 1..Len(points) |-> k - 1]
        /\ pc = "done" =>
              Len(points) - Len(cat) \in 0..(MIN_SEGMENT_POINTS - 1)

\* a segment was returned, and the 9 points after it are in no segment
C18_Witness ==
    /\ pc = "done"
    /\ Len(segments) >= 1
    /\ Len(points) - Len(SegmentIndices(segments)) = MIN_SEGMENT_POINTS - 1

---------------------------------------------------------------------------
(* Claims about neighbouring segments *)

\* C19: two segments that follow each other in the output never have the
\* same type; inside the loop the state differs from the type of the last
\* segment emitted.
C19_NeighboursDiffer ==
    /\ \A k \in 1..(Len(segments) - 1) :
          segments[k].segment_type # segments[k + 1].segment_type
    /\ pc = "loop" /\ segments # <<>> =>
          current_type # segments[Len(segments)].segment_type

\* two segments were returned, and the second one absorbed a point whose
\* label is the type of the first one
C19_Witness ==
    /\ pc = "done"
    /\ Len(segments) = 2
    /\ \E n \in 1..Len(segments[2].points) :
          NewType(points, segments[2].points[n]) = segments[1].segment_type

---------------------------------------------------------------------------
(* verify_slopes.py: identify_runs *)

\* the longest input a caller hands to identify_runs
MaxSamples == 45

\* how many times the caller's track turns from fast to slow or back
MaxTurns == 3

\* a test that counts 10 km/h as fast
FastInclusive(p) == p.speed_kmh >= 1000

\* p['speed_kmh'] > 10, the speed in 0.01 km/h
Fast(p) == p.speed_kmh > 1000

\* a stretch that is handed over whatever its length
EndsRunAnyLength(inrun, stretch) == inrun

\* in_run and len(current_run) > 20
EndsRun(inrun, stretch) == inrun /\ Len(stretch) > MIN_RUN_POINTS

\* a return that hands over the stretch in progress too
RunsReturnedFlushed(found_runs, inrun, stretch) ==
    IF EndsRun(inrun, stretch) THEN Append(found_runs, stretch) ELSE found_runs

\* return runs (line 137): the stretch in progress is not looked at
RunsReturned(found_runs, inrun, stretch) == found_runs

\* one iteration of the for-loop of identify_runs, on the next point
RunStep(p) ==
    /\ rpc = "loop"
    /\ LET i == Len(samples)
       IN  /\ samples' = Append(samples, p)
           /\ IF Fast(p)
              THEN /\ in_run' = TRUE
                   /\ current_run' = IF ~in_run THEN <<i>> ELSE Append(current_run, i)
                   /\ runs' = runs
              ELSE /\ runs' = IF EndsRun(in_run, current_run)
                              THEN Append(runs, current_run)
                              ELSE runs
                   /\ in_run' = FALSE
                   /\ current_run' = <<>>
    /\ rpc' = rpc
    /\ UNCHANGED <<segVars, geoVars, voteVars>>

\* the end of the for-loop: return runs
RunReturn ==
    /\ rpc = "loop"
    /\ runs' = RunsReturned(runs, in_run, current_run)
    /\ rpc' = "done"
    /\ UNCHANGED <<samples, current_run, in_run, rfeed>>
    /\ UNCHANGED <<segVars, geoVars, voteVars>>

\* the last point of the track so far is above 10 km/h
LastFast == samples # <<>> /\ samples[Len(samples)].speed_kmh > 1000

\* the speed of the next point of a track, in 0.01 km/h: 10.01 km/h when
\* fast; when slow, exactly 10 km/h after a fast point and 0 otherwise
NextSpeed(fast) ==
    IF fast THEN 1001
    ELSE IF LastFast THEN 1000
    ELSE 0

\* a track of at most MaxSamples points that turns from fast to slow or
\* back at most MaxTurns times and is never slow for more than 2 points
RunTrack ==
    /\ Len(samples) < MaxSamples
    /\ \E fast \in BOOLEAN :
          LET turn == samples # <<>> /\ fast # LastFast
          IN  /\ turn => rfeed.turns < MaxTurns
              /\ ( /\ ~fast
                   /\ Len(samples) >= 2
                   /\ ~LastFast )
                      => samples[Len(samples) - 1].speed_kmh > 1000
              /\ rfeed' = [turns |-> IF turn THEN rfeed.turns + 1 ELSE rfeed.turns]
              /\ RunStep([speed_kmh |-> NextSpeed(fast)])

InitRuns ==
    /\ IdleRuns
    /\ IdleSeg
    /\ IdleGeo
    /\ IdleVote

NextRuns == RunTrack \/ RunReturn

SpecRuns == InitRuns /\ [][NextRuns]_vars

---------------------------------------------------------------------------
(* Claims about identify_runs *)

\* the run is a stretch of more than 20 points in a row, all above 10 km/h,
\* that starts at the first point of the input or right after a point at
\* 10 km/h or less, and that is followed by a point at 10 km/h or less
MaximalStretch(r) ==
    /\ Len(r) > 20
    /\ \A k \in 1..(Len(r) - 1) : r[k + 1] = r[k] + 1
    /\ \A k \in 1..Len(r) : samples[r[k] + 1].speed_kmh > 1000
    /\ r[1] = 0 \/ samples[r[1]].speed_kmh <= 1000
    /\ r[Len(r)] + 2 \in DOMAIN samples
    /\ samples[r[Len(r)] + 2].speed_kmh <= 1000

===========================================================================
